---- MODULE Spec2Model ----
(***************************************************************************)
(* AI Oral Quiz Grader.                                                    *)
(*                                                                         *)
(* Three specifications share this module:                                 *)
(*   Spec      the Streamlit script of streamlit_app.py (main), run once   *)
(*             per widget event, with the AudioAutoGrader it drives;       *)
(*   SpecGrade AudioAutoGrader.grade_response of grader_logic.py called    *)
(*             directly on bounded inputs;                                 *)
(*   SpecBank  AudioAutoGrader.__init__ / load_questions /                 *)
(*             get_random_question of grader_logic.py on bounded question  *)
(*             sources.                                                    *)
(*                                                                         *)
(* Numbers.  A similarity score or a threshold s is held as the integer    *)
(* s * 10^5.  round(score, 4) is then rounding to a multiple of 10 and is  *)
(* held in units of 10^-4; the grade max(0, score) * 100 rounded to two    *)
(* decimals is the same rounding and is held in units of 0.01 grade point  *)
(* (10000 is the grade 100.0).                                             *)
(*                                                                         *)
(* Texts are sequences over a three letter alphabet: a blank, an upper     *)
(* case letter and its lower case form, so that str.strip and str.lower    *)
(* are computed and not assumed.                                           *)
(***************************************************************************)
EXTENDS Integers, Sequences, FiniteSets, TLC

VARIABLES
    \* ---- streamlit_app.py: st.session_state, the widgets, the script run
    current_question,   \* st.session_state.current_question (None or a record)
    last_result,        \* TRUE iff 'last_result' is a key of st.session_state
    pass_threshold,     \* the sidebar slider
    pc,                 \* where the script run stands: "idle", "recording", "transcribing"
    audio_file,         \* local audio_file of the run
    student_text,       \* local student_text of the run
    result,             \* local result of the run, as rendered on the page
    run,                \* what the run in progress (or just ended) has done
    from_state,         \* pipeline state in which the last widget event arrived
    last_event,         \* the widget event that started the last run
    \* ---- grader_logic.py: one direct call of grade_response
    g_in,               \* the arguments and the embedding engine's behaviour
    g_out,              \* what the call gave
    g_prev,             \* score and grade of the previous non-empty grading
    g_phase,            \* "input" before the call, "called" after it
    \* ---- grader_logic.py: the question bank
    b_source,           \* what the questions file is
    b_questions,        \* self.questions
    b_phase,            \* "new" before __init__, "loaded" after it
    b_choice,           \* what the last get_random_question gave
    b_raised            \* TRUE iff the last get_random_question raised

appVars   == <<current_question, last_result, pass_threshold, pc, audio_file,
               student_text, result, run, from_state, last_event>>
gradeVars == <<g_in, g_out, g_prev, g_phase>>
bankVars  == <<b_source, b_questions, b_phase, b_choice, b_raised>>
vars      == <<appVars, gradeVars, bankVars>>

----------------------------------------------------------------------------
(* Bounds *)

MaxLen == 2         \* longest text the speech-to-text engine or a caller gives
MaxRecords == 3     \* most records in a questions file
MaxId == 3          \* ids of the records in a questions file are 1..MaxId

(* Program constants *)

NumQuestions == 10          \* the built-in bank of streamlit_app.py
DefaultThreshold == 65000   \* 0.65
FallbackId == 0

----------------------------------------------------------------------------
(* Texts *)

Chars == {" ", "A", "a"}

RECURSIVE SeqsUpTo(_)
SeqsUpTo(n) ==
    IF n = 0 THEN {<<>>}
    ELSE LET shorter == SeqsUpTo(n - 1)
         IN  shorter \cup {Append(s, c) : s \in {t \in shorter : Len(t) = n - 1}, c \in Chars}

Texts == SeqsUpTo(MaxLen)

LowerChar(c) == IF c = "A" THEN "a" ELSE c

\* str.lower()
Lower(t) == [i \in 1..Len(t) |-> LowerChar(t[i])]

RECURSIVE LStrip(_)
LStrip(t) == IF t # <<>> /\ Head(t) = " " THEN LStrip(Tail(t)) ELSE t

RECURSIVE RStrip(_)
RStrip(t) ==
    IF t # <<>> /\ t[Len(t)] = " " THEN RStrip(SubSeq(t, 1, Len(t) - 1)) ELSE t

\* str.strip()
Strip(t) == RStrip(LStrip(t))

----------------------------------------------------------------------------
(* Numbers *)

\* cosine similarities the embedding engine may give, times 10^5
Scores == {-100000, -15, -5, 0, 4, 5, 15, 64995, 64999, 65000, 65005, 100000}

\* positions of the threshold slider, times 10^5
Thresholds == {0, 5, DefaultThreshold, 100000}

\* Max0 without the clamp: a negative score gives a negative grade.
Max0_unclamped(n) == n

Max0(n) == IF n > 0 THEN n ELSE 0

\* Python's round(x, k) where x is n units and the result is n/10 units:
\* to the nearest, an exact tie to the even neighbour.
Round(n) ==
    LET q == n \div 10
        r == n % 10
    IN  IF r < 5 THEN q
        ELSE IF r > 5 THEN q + 1
        ELSE IF q % 2 = 0 THEN q ELSE q + 1

----------------------------------------------------------------------------
(* AudioAutoGrader: the methods, as operators of their arguments and of    *)
(* what the engine behind them does.                                       *)

None == "None"
Filename == "student_response.wav"

NoResult == [grade |-> 0, similarity_score |-> 0, status |-> "NONE"]

\* What the audio device and the WAV writer may do during record_audio.
DeviceOutcomes == {"ok", "device_error", "write_error"}

\* What stt_model.transcribe may do: raise, give a dictionary without the
\* key "text", or give a text.
SttOutcomes ==
    {[kind |-> "raises", text |-> <<>>], [kind |-> "no_text_key", text |-> <<>>]}
        \cup {[kind |-> "ok", text |-> t] : t \in Texts}

\* What the embedding engine may do during a grading: nlp_model.encode
\* raises on the student's text, or on the reference, or util.cos_sim
\* raises, or a score comes out.
EmbedOutcomes ==
    {[raises |-> r, score |-> 0] : r \in {"encode_student", "encode_reference", "cos_sim"}}
        \cup {[raises |-> "no", score |-> s] : s \in Scores}

\* record_audio that gives the file name whatever happened.
record_audio_always_file(dev) == Filename

\* record_audio: the file name, or None when sd.rec, sd.wait or write raised.
record_audio(dev) == IF dev = "ok" THEN Filename ELSE None

\* transcribe that gives the error's message, not "", when the engine raised.
transcribe_error_text(stt) == IF stt.kind = "ok" THEN Strip(stt.text) ELSE <<"a">>

\* transcribe: the engine's text stripped, or "" when anything raised.
transcribe(stt) == IF stt.kind = "ok" THEN Strip(stt.text) ELSE <<>>

\* grade_response with > for >= in the verdict.
grade_response_strict(text, reference_answer, threshold, emb) ==
    IF text = <<>>
    THEN [raised |-> FALSE, encoded |-> <<>>,
          value |-> [grade |-> 0, similarity_score |-> 0, status |-> "FAIL"]]
    ELSE IF emb.raises = "encode_student"
    THEN [raised |-> TRUE, encoded |-> <<Lower(text)>>, value |-> NoResult]
    ELSE IF emb.raises # "no"
    THEN [raised |-> TRUE, encoded |-> <<Lower(text), Lower(reference_answer)>>,
          value |-> NoResult]
    ELSE [raised |-> FALSE,
          encoded |-> <<Lower(text), Lower(reference_answer)>>,
          value |-> [grade |-> Round(Max0(emb.score)),
                     similarity_score |-> Round(emb.score),
                     status |-> IF emb.score > threshold THEN "PASS" ELSE "FAIL"]]

\* grade_response without the test of the empty text.
grade_response_no_short_circuit(text, reference_answer, threshold, emb) ==
    IF emb.raises = "encode_student"
    THEN [raised |-> TRUE, encoded |-> <<Lower(text)>>, value |-> NoResult]
    ELSE IF emb.raises # "no"
    THEN [raised |-> TRUE, encoded |-> <<Lower(text), Lower(reference_answer)>>,
          value |-> NoResult]
    ELSE [raised |-> FALSE,
          encoded |-> <<Lower(text), Lower(reference_answer)>>,
          value |-> [grade |-> Round(Max0(emb.score)),
                     similarity_score |-> Round(emb.score),
                     status |-> IF emb.score >= threshold THEN "PASS" ELSE "FAIL"]]

\* grade_response.  raised: an exception left the method (then value is
\* NoResult); encoded: the texts handed to nlp_model.encode, in order;
\* value: the dictionary returned.
grade_response(text, reference_answer, threshold, emb) ==
    IF text = <<>>
    THEN [raised |-> FALSE, encoded |-> <<>>,
          value |-> [grade |-> 0, similarity_score |-> 0, status |-> "FAIL"]]
    ELSE IF emb.raises = "encode_student"
    THEN [raised |-> TRUE, encoded |-> <<Lower(text)>>, value |-> NoResult]
    ELSE IF emb.raises # "no"
    THEN [raised |-> TRUE, encoded |-> <<Lower(text), Lower(reference_answer)>>,
          value |-> NoResult]
    ELSE [raised |-> FALSE,
          encoded |-> <<Lower(text), Lower(reference_answer)>>,
          value |-> [grade |-> Round(Max0(emb.score)),
                     similarity_score |-> Round(emb.score),
                     status |-> IF emb.score >= threshold THEN "PASS" ELSE "FAIL"]]

\* random.choice: the values it may give; none when the sequence is empty
\* (it raises IndexError).
Choices(seq) == {seq[i] : i \in 1..Len(seq)}

----------------------------------------------------------------------------
(* grader_logic.py: the question bank *)

QuestionRecord(i) ==
    [id |-> i, question |-> "question", reference |-> "reference", keywords |-> "keywords"]

Fallback ==
    [id |-> FallbackId,
     question |-> "Sample Question: What is Biology?",
     reference |-> "Biology is the study of life and living organisms.",
     keywords |-> "study, life, organisms"]

RECORD_IDS == 1..MaxId

RECURSIVE RecordLists(_)
RecordLists(n) ==
    IF n = 0 THEN {<<>>}
    ELSE LET shorter == RecordLists(n - 1)
         IN  shorter \cup {Append(s, QuestionRecord(i)) :
                             s \in {t \in shorter : Len(t) = n - 1}, i \in RECORD_IDS}

\* A questions file: missing, not readable, not JSON, or a JSON list.
Sources ==
    {[kind |-> k, records |-> <<>>] : k \in {"missing", "unreadable", "malformed"}}
        \cup {[kind |-> "list", records |-> l] : l \in RecordLists(MaxRecords)}

\* load_questions whose except branch gives an empty list.
load_questions_empty_on_error(source) ==
    IF source.kind = "list" THEN source.records ELSE <<>>

\* load_questions: json.load's value, or the backup question when open or
\* json.load raised.
load_questions(source) ==
    IF source.kind = "list" THEN source.records ELSE <<Fallback>>

----------------------------------------------------------------------------
(* streamlit_app.py: the script.  Streamlit runs main() from the top on    *)
(* every widget event; the locals of a run (audio_file, student_text,      *)
(* result) live for that run and what it rendered stays on the page until  *)
(* the next run.  Only st.session_state and the widgets' values persist.   *)
(* A widget event that arrives while a run is in progress starts the next  *)
(* run all the same: the run in progress is abandoned with its locals, so  *)
(* the three widget actions carry no guard on pc.                          *)

NoQuestion == [id |-> 0, reference |-> <<>>, keywords |-> "None"]

\* self.questions of the application's AudioAutoGrader: ten records.  The
\* reference answers are abstracted to two texts of the alphabet.
questions ==
    [i \in 1..NumQuestions |->
        [id |-> i,
         reference |-> IF i % 2 = 1 THEN <<"A", "a">> ELSE <<"a", " ", "A">>,
         keywords |-> "keywords"]]

ErrorResult == [grade |-> 0, similarity_score |-> 0, status |-> "ERROR"]

\* A run that has done nothing yet.
NewRun ==
    [dev |-> "none", stt |-> "none", transcribe_calls |-> 0, grade_calls |-> 0,
     encoded |-> <<>>, raised |-> FALSE]

\* The pipeline state the session is in.  CRASHED: an exception left main().
State ==
    IF pc = "recording" THEN "RECORDING"
    ELSE IF pc = "transcribing" THEN "TRANSCRIBING"
    ELSE IF run.raised THEN "CRASHED"
    ELSE IF current_question = NoQuestion THEN "IDLE"
    ELSE IF result = NoResult THEN "QUESTION_SELECTED"
    ELSE IF result.status = "ERROR" THEN "FAILED"
    ELSE "GRADED"

\* The top of main() on any run: the locals of the run before are gone.
BeginRun(event) ==
    /\ audio_file' = None
    /\ student_text' = <<>>
    /\ result' = NoResult
    /\ run' = NewRun
    /\ from_state' = State
    /\ last_event' = event

InitApp ==
    /\ current_question = NoQuestion
    /\ last_result = FALSE
    /\ pass_threshold = DefaultThreshold
    /\ pc = "idle"
    /\ audio_file = None
    /\ student_text = <<>>
    /\ result = NoResult
    /\ run = NewRun
    /\ from_state = "IDLE"
    /\ last_event = "load"

\* NewQuestion that leaves what the run before rendered on the page.
NewQuestion_keeps_result ==
    /\ \E q \in Choices(questions) : current_question' = q
    /\ last_result' = FALSE
    /\ pc' = "idle"
    /\ run' = NewRun
    /\ from_state' = State
    /\ last_event' = "new_question"
    /\ UNCHANGED <<audio_file, student_text, result, pass_threshold, gradeVars, bankVars>>

\* The button "Get New Question".
NewQuestion ==
    /\ \E q \in Choices(questions) : current_question' = q
    /\ last_result' = FALSE
    /\ pc' = "idle"
    /\ BeginRun("new_question")
    /\ UNCHANGED <<pass_threshold, gradeVars, bankVars>>

\* StartRecording with the button rendered outside "if current_question".
StartRecording_unguarded ==
    /\ pc' = "recording"
    /\ BeginRun("record")
    /\ UNCHANGED <<current_question, last_result, pass_threshold, gradeVars, bankVars>>

\* The button "Record Answer", which is rendered only under a question.
StartRecording ==
    /\ current_question # NoQuestion
    /\ pc' = "recording"
    /\ BeginRun("record")
    /\ UNCHANGED <<current_question, last_result, pass_threshold, gradeVars, bankVars>>

\* record_audio returns; without a file the run ends with the ERROR result.
\* (os.path.exists(audio_file) only decides whether the player is shown.)
CaptureDone ==
    /\ pc = "recording"
    /\ \E dev \in DeviceOutcomes :
        LET file == record_audio(dev)
        IN  /\ audio_file' = file
            /\ run' = [run EXCEPT !.dev = dev]
            /\ IF file # None
               THEN /\ pc' = "transcribing"
                    /\ UNCHANGED <<student_text, result>>
               ELSE /\ pc' = "idle"
                    /\ student_text' = <<>>
                    /\ result' = ErrorResult
    /\ UNCHANGED <<current_question, last_result, pass_threshold, from_state, last_event,
                   gradeVars, bankVars>>

\* transcribe, then grade_response, then the result is rendered.
TranscribeAndGrade ==
    /\ pc = "transcribing"
    /\ \E stt \in SttOutcomes, emb \in EmbedOutcomes :
        LET text == transcribe(stt)
            g    == grade_response(text, current_question.reference, pass_threshold, emb)
        IN  /\ student_text' = IF g.raised THEN <<>> ELSE text
            /\ result' = g.value
            /\ run' = [run EXCEPT !.stt = stt.kind, !.transcribe_calls = 1,
                                  !.grade_calls = 1, !.encoded = g.encoded,
                                  !.raised = g.raised]
    /\ pc' = "idle"
    /\ UNCHANGED <<current_question, last_result, pass_threshold, audio_file,
                   from_state, last_event, gradeVars, bankVars>>

\* A slider is moved: a run with no button pressed.
SetThreshold ==
    /\ \E t \in Thresholds : pass_threshold' = t
    /\ pc' = "idle"
    /\ BeginRun("slider")
    /\ UNCHANGED <<current_question, last_result, gradeVars, bankVars>>

----------------------------------------------------------------------------
(* grader_logic.py: grade_response called directly *)

References == {t \in Texts : Len(t) <= 1} \cup {questions[i].reference : i \in 1..NumQuestions}

GradeInputs ==
    [student : Texts, reference : References, threshold : Thresholds, emb : EmbedOutcomes]

NoOut == [raised |-> FALSE, encoded |-> <<>>, value |-> NoResult]
NoPrev == [valid |-> FALSE, score |-> 0, grade |-> 0]

InitGrade ==
    /\ g_in \in GradeInputs
    /\ g_out = NoOut
    /\ g_prev = NoPrev
    /\ g_phase = "input"

\* The grade and bank variables while another specification runs.
GradeAtRest ==
    /\ g_in = [student |-> <<>>, reference |-> <<>>, threshold |-> DefaultThreshold,
               emb |-> [raises |-> "no", score |-> 0]]
    /\ g_out = NoOut
    /\ g_prev = NoPrev
    /\ g_phase = "input"

\* grade_response(student, reference, threshold)
GradeCall ==
    /\ g_phase = "input"
    /\ g_out' = grade_response(g_in.student, g_in.reference, g_in.threshold, g_in.emb)
    /\ g_phase' = "called"
    /\ UNCHANGED <<g_in, g_prev, appVars, bankVars>>

\* The same texts are graded again and the engine answers anew; the score
\* and grade of a grading that computed them are kept for comparison.
GradeAgain ==
    /\ g_phase = "called"
    /\ \E e \in EmbedOutcomes : g_in' = [g_in EXCEPT !.emb = e]
    /\ g_prev' = IF g_in.student # <<>> /\ ~g_out.raised
                 THEN [valid |-> TRUE, score |-> g_in.emb.score, grade |-> g_out.value.grade]
                 ELSE g_prev
    /\ g_out' = NoOut
    /\ g_phase' = "input"
    /\ UNCHANGED <<appVars, bankVars>>

----------------------------------------------------------------------------
(* grader_logic.py: __init__ and get_random_question *)

NoChoice == QuestionRecord(-1)

InitBank ==
    /\ b_source \in Sources
    /\ b_questions = <<>>
    /\ b_phase = "new"
    /\ b_choice = NoChoice
    /\ b_raised = FALSE

BankAtRest ==
    /\ b_source = [kind |-> "missing", records |-> <<>>]
    /\ b_questions = <<>>
    /\ b_phase = "new"
    /\ b_choice = NoChoice
    /\ b_raised = FALSE

\* AudioAutoGrader(stt_model, nlp_model, questions_file)
Construct ==
    /\ b_phase = "new"
    /\ b_questions' = load_questions(b_source)
    /\ b_phase' = "loaded"
    /\ UNCHANGED <<b_source, b_choice, b_raised, appVars, gradeVars>>

\* get_random_question(): random.choice raises on an empty list.
GetRandomQuestion ==
    /\ b_phase = "loaded"
    /\ IF Choices(b_questions) = {}
       THEN /\ b_raised' = TRUE
            /\ b_choice' = NoChoice
       ELSE /\ b_raised' = FALSE
            /\ \E q \in Choices(b_questions) : b_choice' = q
    /\ UNCHANGED <<b_source, b_questions, b_phase, appVars, gradeVars>>

----------------------------------------------------------------------------
(* Specifications *)

Init == InitApp /\ GradeAtRest /\ BankAtRest

Next ==
    \/ NewQuestion
    \/ StartRecording
    \/ CaptureDone
    \/ TranscribeAndGrade
    \/ SetThreshold

Spec == Init /\ [][Next]_vars

InitG == InitGrade /\ InitApp /\ BankAtRest

NextGrade ==
    \/ GradeCall
    \/ GradeAgain

SpecGrade == InitG /\ [][NextGrade]_vars

InitB == InitBank /\ InitApp /\ GradeAtRest

NextBank ==
    \/ Construct
    \/ GetRandomQuestion

SpecBank == InitB /\ [][NextBank]_vars

----------------------------------------------------------------------------
(* Claims *)

\* C1: after the button "Get New Question", whatever state the session was
\* in, the pipeline is in QUESTION_SELECTED, the current question is a
\* record of the bank, and no result of an earlier round is kept: none is
\* rendered and none is stored in the session.
C1_NewQuestionResets ==
    last_event = "new_question" =>
        /\ State = "QUESTION_SELECTED"
        /\ current_question \in Choices(questions)
        /\ result = NoResult
        /\ student_text = <<>>
        /\ ~last_result

\* C1 witness: a new question was asked for while a graded result was shown.
C1_Witness ==
    /\ last_event = "new_question"
    /\ from_state = "GRADED"
    /\ State = "QUESTION_SELECTED"

\* C2: when record_audio fails, the run ends in FAILED with the result
\* {grade 0, status ERROR} and neither transcribe nor grade_response (nor
\* the embedding engine) is called in that run.
C2_CaptureFailureEndsFailed ==
    run.dev \in {"device_error", "write_error"} =>
        /\ pc = "idle"
        /\ State = "FAILED"
        /\ result.grade = 0
        /\ result.status = "ERROR"
        /\ run.transcribe_calls = 0
        /\ run.grade_calls = 0
        /\ run.encoded = <<>>

\* C2 witness: the device failed during a recording.
C2_Witness ==
    /\ run.dev = "device_error"
    /\ from_state = "QUESTION_SELECTED"
    /\ State = "FAILED"

\* C3 as stated: for every student text, reference and threshold for which
\* the engine gives a similarity, the status is PASS iff similarity >= t.
C3_Original ==
    (g_phase = "called" /\ g_in.emb.raises = "no") =>
        (g_out.value.status = "PASS" <=> g_in.emb.score >= g_in.threshold)

\* C3 amended: for every NON-EMPTY student text, every reference and every
\* threshold, when the engine gives a similarity s the status is PASS iff
\* s >= t (and FAIL otherwise); an empty student text is FAIL whatever t is.
C3_PassIffAtLeastThreshold ==
    g_phase = "called" =>
        /\ (g_in.student # <<>> /\ g_in.emb.raises = "no") =>
                /\ g_out.value.status \in {"PASS", "FAIL"}
                /\ g_out.value.status = "PASS" <=> g_in.emb.score >= g_in.threshold
        /\ g_in.student = <<>> => g_out.value.status = "FAIL"

\* C3 witness: a non-empty text whose similarity equals the threshold passes.
C3_Witness ==
    /\ g_phase = "called"
    /\ g_in.student # <<>>
    /\ g_in.emb.raises = "no"
    /\ g_in.emb.score = g_in.threshold
    /\ g_in.threshold = DefaultThreshold
    /\ g_out.value.status = "PASS"

\* C4: grading the empty text gives exactly {grade 0, similarity_score 0,
\* status FAIL} for every reference and threshold and whatever the engine
\* would do, and hands nothing to the embedding engine.
C4_EmptyTextShortCircuits ==
    (g_phase = "called" /\ g_in.student = <<>>) =>
        /\ ~g_out.raised
        /\ g_out.value = [grade |-> 0, similarity_score |-> 0, status |-> "FAIL"]
        /\ g_out.encoded = <<>>

\* C4 witness: the empty text graded at threshold 0 with an engine that
\* would have given similarity 1.
C4_Witness ==
    /\ g_phase = "called"
    /\ g_in.student = <<>>
    /\ g_in.threshold = 0
    /\ g_in.emb = [raises |-> "no", score |-> 100000]

\* C5: when the speech-to-text engine fails, transcribe gives "", that is
\* what is graded, and the run ends in GRADED with grade 0 and status FAIL:
\* not ERROR, not FAILED, and nothing raised.
C5_TranscriptionFailureGradesEmpty ==
    run.stt \in {"raises", "no_text_key"} =>
        /\ pc = "idle"
        /\ student_text = <<>>
        /\ run.grade_calls = 1
        /\ ~run.raised
        /\ State = "GRADED"
        /\ result = [grade |-> 0, similarity_score |-> 0, status |-> "FAIL"]

\* C5 witness: the engine raised after a capture that succeeded.
C5_Witness ==
    /\ run.stt = "raises"
    /\ run.dev = "ok"
    /\ State = "GRADED"

\* C6: no public operation raises: in particular a call of grade_response
\* returns a result whatever the embedding engine does.
C6_NothingRaised ==
    g_phase = "called" => ~g_out.raised

\* C7: after load the bank is not empty, whatever the source, so that
\* get_random_question is defined and gives a record of the loaded list.
C7_BankNeverEmpty ==
    b_phase = "loaded" =>
        /\ b_questions # <<>>
        /\ ~b_raised
        /\ b_choice # NoChoice => b_choice \in Choices(b_questions)

\* C8: for a source that is missing, unreadable or not JSON, load gives
\* exactly one record, the built-in fallback, whose id is 0.
C8_UnreadableGivesFallback ==
    (b_phase = "loaded" /\ b_source.kind \in {"missing", "unreadable", "malformed"}) =>
        /\ Len(b_questions) = 1
        /\ b_questions[1].id = 0
        /\ b_questions[1].question = "Sample Question: What is Biology?"
        /\ b_questions[1].reference = "Biology is the study of life and living organisms."
        /\ ~b_raised

\* C8 witness: the file was not JSON and the fallback was then selected.
C8_Witness ==
    /\ b_phase = "loaded"
    /\ b_source.kind = "malformed"
    /\ b_choice = b_questions[1]
    /\ b_choice.id = 0

\* C9: the grade of a non-empty text lies in [0, 100], is 0 for every
\* similarity below 0, is max(0, similarity) * 100 to within the rounding
\* to two decimals, and does not decrease when the similarity does not:
\* compared with the grading before it, a score at least as high gives a
\* grade at least as high.
C9_GradeMonotoneClamped ==
    (g_phase = "called" /\ g_in.student # <<>> /\ ~g_out.raised) =>
        LET s == g_in.emb.score
            g == g_out.value.grade
            m == IF s > 0 THEN s ELSE 0
        IN  /\ g \in 0..10000
            /\ s < 0 => g = 0
            /\ 10 * g - m \in -5..5
            /\ g_prev.valid =>
                /\ g_prev.score <= s => g_prev.grade <= g
                /\ s <= g_prev.score => g <= g_prev.grade

\* C9 witness: a grading with negative similarity after one with a positive
\* similarity.
C9_Witness ==
    /\ g_phase = "called"
    /\ g_in.student # <<>>
    /\ ~g_out.raised
    /\ g_in.emb.score < 0
    /\ g_prev.valid
    /\ g_prev.score > 0
    /\ g_prev.grade > 0

\* C10 as stated: a recording starts only from QUESTION_SELECTED; here in
\* the two cases the claim spells out: never from IDLE, and never from a
\* round that ended in GRADED or FAILED with no new question since.
C10_Original ==
    pc = "recording" => from_state \notin {"IDLE", "GRADED", "FAILED"}

\* C10 amended: a recording starts only when a current question is set,
\* never in IDLE; it may start again after GRADED or FAILED without a new
\* question in between.
C10_RecordingNeedsQuestion ==
    last_event = "record" =>
        /\ from_state # "IDLE"
        /\ current_question \in Choices(questions)

\* C10 witness: a recording started while a graded result was shown.
C10_Witness ==
    /\ pc = "recording"
    /\ from_state = "GRADED"

====
